---- MODULE Spec2Model ----
(***************************************************************************)
(* A model of gosek: the inline-flag sanitizer and template loader         *)
(* (gosek/patterns_loader.py), the fetch / match / fan-out pipeline        *)
(* (gosek/scanner.py) and the scan command (gosek/cli.py).                 *)
(*                                                                         *)
(* Strings are sequences of one-character strings.  Positions are the      *)
(* 0-based positions of the Python code; pat[i] of the code is pat[i+1]    *)
(* here.  A set of compiler flags (re.IGNORECASE | ...) is a set of flag   *)
(* names, and | is set union.                                              *)
(***************************************************************************)
EXTENDS Integers, Sequences, FiniteSets, Bags, TLC

VARIABLES
    san_pc,       \* _sanitize_inline_flags: "call" before it runs, "return" after
    pat,          \* its argument
    sanitized,    \* its return value
    txt_pc,       \* scan_text / context_snippet: "call", then "return"
    text,         \* the content scanned
    compiled_patterns,  \* the (name, raw, cre) triples, in order
    context,      \* the context option / the ctx argument
    findings,     \* scan_text's return value
    snip,         \* context_snippet's start and end arguments and its result
    fetch_pc,     \* fetch_url: "call", then "return"
    retries,      \* the retries option
    backoff,      \* the backoff option, in milliseconds
    outcomes,     \* fetch_url: what the k-th requests.get of the URL does
    fetched,      \* fetch_url: what it did (events) and how it ended (result)
    sc_pc,        \* scan_many's main thread: "submit", "collect", "exit",
                  \*   "raising", "returned", "raised"
    targets,      \* the (kind, value) pairs to scan, in order
    max_workers,  \* the size of the thread pool
    futs,         \* futs[n]: the Future of targets[n]
    yielded,      \* the futures as_completed has yielded
    results,      \* the result accumulator
    calls,        \* the calls of scan_many that returned: max_workers, results
    cli_pc,       \* main, scan command: "start", "load", "gather", "scan",
                  \*   "scanning" (scan_many was called), "exit" (aborted)
    tdir,         \* the templates directory: whether it exists, and its files
    file_no,      \* load_patterns_from_dir: the files of rglob visited so far
    loaded,       \* load_patterns_from_dir: its local list `patterns`
    main_patterns, \* main: its local `patterns`, once the loader returned
    cli_error     \* the exception that ended main

sanVars == <<san_pc, pat, sanitized>>
txtVars == <<txt_pc, text, compiled_patterns, context, findings, snip>>
fetchVars == <<fetch_pc, retries, backoff, outcomes, fetched>>
scanVars == <<sc_pc, targets, max_workers, futs, yielded, results, calls>>
cliVars == <<cli_pc, tdir, file_no, loaded, main_patterns, cli_error>>
vars == <<sanVars, txtVars, fetchVars, scanVars, cliVars>>

Min(a, b) == IF a < b THEN a ELSE b
Max(a, b) == IF a > b THEN a ELSE b

\* The elements of a sequence, as a set.
Range(s) == {s[k] : k \in DOMAIN s}

\* The sequence lo, lo+1, ..., hi-1 (the positions of the slice [lo:hi]).
Positions(lo, hi) == [k \in 1..Max(0, hi - lo) |-> lo + k - 1]

RECURSIVE Flatten(_)
Flatten(ss) == IF ss = <<>> THEN <<>> ELSE Head(ss) \o Flatten(Tail(ss))

(***************************************************************************)
(* patterns_loader.py: _sanitize_inline_flags                              *)
(***************************************************************************)

INLINE_FLAG_MAP ==
    [ch \in {"i", "m", "s", "x"} |->
        CASE ch = "i" -> "IGNORECASE"
          [] ch = "m" -> "MULTILINE"
          [] ch = "s" -> "DOTALL"
          [] ch = "x" -> "VERBOSE"]

\* The character class [imsx] of _RE_INLINE_MIX and _RE_INLINE_OFF.
FlagChars == DOMAIN INLINE_FLAG_MAP

\* pat.startswith(s, i)
startswith(p, s, i) ==
    i + Len(s) <= Len(p) /\ SubSeq(p, i + 1, i + Len(s)) = s

\* [imsx]+ tried at position k: the position after the longest run of flag
\* characters (k itself when there is none).
RECURSIVE FlagRun(_, _)
FlagRun(p, k) ==
    IF k < Len(p) /\ p[k + 1] \in FlagChars THEN FlagRun(p, k + 1) ELSE k

NoMatch == [matched |-> FALSE, on |-> <<>>, off |-> <<>>, end |-> 0]

\* A mutant of RE_INLINE_MIX: the closing ")" is not required.
RE_INLINE_MIX_Unclosed(p, i) ==
    LET a == i + 2
        b == FlagRun(p, a)
    IN  IF ~startswith(p, <<"(", "?">>, i) \/ b = a THEN NoMatch
        ELSE [matched |-> TRUE, on |-> SubSeq(p, a + 1, b),
              off |-> <<>>, end |-> Min(b + 1, Len(p))]

\* _RE_INLINE_MIX.match(pat, i):  \(\?([imsx]+)(?:-([imsx]+))?\)
RE_INLINE_MIX(p, i) ==
    LET a == i + 2
        b == FlagRun(p, a)
        c == FlagRun(p, b + 1)
    IN  IF ~startswith(p, <<"(", "?">>, i) \/ b = a THEN NoMatch
        ELSE IF b < Len(p) /\ p[b + 1] = ")"
             THEN [matched |-> TRUE, on |-> SubSeq(p, a + 1, b),
                   off |-> <<>>, end |-> b + 1]
        ELSE IF b < Len(p) /\ p[b + 1] = "-" /\ c > b + 1
                /\ c < Len(p) /\ p[c + 1] = ")"
             THEN [matched |-> TRUE, on |-> SubSeq(p, a + 1, b),
                   off |-> SubSeq(p, b + 2, c), end |-> c + 1]
        ELSE NoMatch

\* A mutant of RE_INLINE_OFF: it never matches.
RE_INLINE_OFF_Never(p, i) == NoMatch

\* _RE_INLINE_OFF.match(pat, i):  \(\?-([imsx]+)\)
RE_INLINE_OFF(p, i) ==
    LET a == i + 3
        b == FlagRun(p, a)
    IN  IF startswith(p, <<"(", "?", "-">>, i) /\ b > a
           /\ b < Len(p) /\ p[b + 1] = ")"
        THEN [matched |-> TRUE, on |-> <<>>,
              off |-> SubSeq(p, a + 1, b), end |-> b + 1]
        ELSE NoMatch

\* The inner while loop: from j, the first ":" (scoped) or ")" (not scoped),
\* or the end of the pattern.
RECURSIVE HeaderScan(_, _)
HeaderScan(p, j) ==
    IF j >= Len(p) THEN [scoped |-> FALSE, j |-> j]
    ELSE IF p[j + 1] = ":" THEN [scoped |-> TRUE, j |-> j]
    ELSE IF p[j + 1] = ")" THEN [scoped |-> FALSE, j |-> j]
    ELSE HeaderScan(p, j + 1)

\* A mutant of AppendSlice: the slice stops one character early.
AppendSliceShort(out, i, j) == out \o Positions(i, j - 1)

\* out.append(pat[i:j]): out holds the positions of the characters appended.
AppendSlice(out, i, j) == out \o Positions(i, j)

\* A mutant of MixFlags: an "off" character switches its flag off.
MixFlagsHonourOff(extra, on_flags, off_flags) ==
    (extra \cup {INLINE_FLAG_MAP[ch] : ch \in Range(on_flags)})
        \ {INLINE_FLAG_MAP[ch] : ch \in Range(off_flags)}

\* for ch in on_flags: extra |= INLINE_FLAG_MAP.get(ch, 0); off_flags ignored.
MixFlags(extra, on_flags, off_flags) ==
    extra \cup {INLINE_FLAG_MAP[ch] : ch \in Range(on_flags)}

\* The outer while loop, from position i with the accumulators out and extra.
RECURSIVE SanitizeLoop(_, _, _, _)
SanitizeLoop(p, i, out, extra) ==
    IF i >= Len(p) THEN [out |-> out, extra |-> extra]
    ELSE LET h   == HeaderScan(p, i + 2)
             mix == RE_INLINE_MIX(p, i)
             off == RE_INLINE_OFF(p, i)
         IN  IF startswith(p, <<"(", "?">>, i) /\ h.scoped
                THEN SanitizeLoop(p, h.j + 1, AppendSlice(out, i, h.j + 1), extra)
             ELSE IF startswith(p, <<"(", "?">>, i) /\ mix.matched
                THEN SanitizeLoop(p, mix.end, out, MixFlags(extra, mix.on, mix.off))
             ELSE IF startswith(p, <<"(", "?">>, i) /\ off.matched
                THEN SanitizeLoop(p, off.end, out, extra)
             ELSE SanitizeLoop(p, i + 1, AppendSlice(out, i, i + 1), extra)

\* _sanitize_inline_flags(pat): the text "".join(out), the extra flags, and
\* kept, the positions of pat the text was copied from.
sanitize_inline_flags(p) ==
    LET r == SanitizeLoop(p, 0, <<>>, {})
    IN  [text  |-> [k \in 1..Len(r.out) |-> p[r.out[k] + 1]],
         extra |-> r.extra,
         kept  |-> Range(r.out)]

(***************************************************************************)
(* scanner.py: context_snippet, scan_text; re.Pattern.finditer             *)
(***************************************************************************)

\* The characters str.strip() removes (those the model's texts can hold).
Whitespace == {" ", "\n", "\r", "\t"}

\* s.replace(old, new) for one-character old and new.
replace(s, old, new) == [n \in DOMAIN s |-> IF s[n] = old THEN new ELSE s[n]]

RECURSIVE lstrip(_)
lstrip(s) == IF s # <<>> /\ Head(s) \in Whitespace THEN lstrip(Tail(s)) ELSE s

RECURSIVE rstrip(_)
rstrip(s) ==
    IF s # <<>> /\ s[Len(s)] \in Whitespace
    THEN rstrip(SubSeq(s, 1, Len(s) - 1)) ELSE s

\* s.strip()
strip(s) == rstrip(lstrip(s))

\* A mutant of context_snippet: the carriage returns are not replaced.
context_snippet_KeepCR(t, start, end, ctx) ==
    LET s == Max(0, start - ctx)
        e == Min(Len(t), end + ctx)
    IN  strip(replace(SubSeq(t, s + 1, e), "\n", " "))

\* context_snippet(text, start, end, ctx)
context_snippet(t, start, end, ctx) ==
    LET s == Max(0, start - ctx)
        e == Min(Len(t), end + ctx)
    IN  strip(replace(replace(SubSeq(t, s + 1, e), "\n", " "), "\r", " "))

(***************************************************************************)
(* A compiled pattern cre is one of                                        *)
(*   [kind |-> "lit",  s |-> w]   the literal w (not empty),               *)
(*   [kind |-> "star", s |-> <<c>>]  c*  : the longest run of c,           *)
(*   [kind |-> "lazy", s |-> <<c>>]  c*? : the shortest run of c.          *)
(* MatchAt is the engine's match of cre anchored at position pos: the      *)
(* position after the match, or -1.  With must_advance the match may not   *)
(* be empty (the engine's rule for a search that starts where an empty     *)
(* match was just found).                                                  *)
(***************************************************************************)
RECURSIVE RunEnd(_, _, _)
RunEnd(t, c, k) == IF k < Len(t) /\ t[k + 1] = c THEN RunEnd(t, c, k + 1) ELSE k

MatchAt(cre, t, pos, must_advance) ==
    CASE cre.kind = "lit" ->
            IF startswith(t, cre.s, pos) THEN pos + Len(cre.s) ELSE -1
      [] cre.kind = "star" ->
            LET e == RunEnd(t, cre.s[1], pos)
            IN  IF must_advance /\ e = pos THEN -1 ELSE e
      [] cre.kind = "lazy" ->
            IF ~must_advance THEN pos
            ELSE IF pos < Len(t) /\ t[pos + 1] = cre.s[1] THEN pos + 1
            ELSE -1

\* The leftmost match that starts at or after pos: [start, end], or end = -1.
RECURSIVE Search(_, _, _, _)
Search(cre, t, s, must_advance) ==
    IF s > Len(t) THEN [start |-> s, end |-> -1]
    ELSE LET e == MatchAt(cre, t, s, must_advance)
         IN  IF e # -1 THEN [start |-> s, end |-> e]
             ELSE Search(cre, t, s + 1, FALSE)

\* cre.finditer(text) from position pos: the matches in the order yielded.  The
\* next search starts at the end of the match, and must advance when the match
\* was empty.
RECURSIVE finditer_from(_, _, _, _)
finditer_from(cre, t, pos, must_advance) ==
    LET m == Search(cre, t, pos, must_advance)
    IN  IF m.end = -1 THEN <<>>
        ELSE <<m>> \o finditer_from(cre, t, m.end, m.end = m.start)

finditer(cre, t) == finditer_from(cre, t, 0, FALSE)

\* Finding(pattern_name=name, pattern=raw, match=m.group(0), context=..., source=source)
Finding(name, raw, t, m, ctx, source) ==
    [pattern_name |-> name,
     pattern      |-> raw,
     match        |-> SubSeq(t, m.start + 1, m.end),
     context      |-> context_snippet(t, m.start, m.end, ctx),
     source       |-> source]

\* The inner for loop of scan_text: one Finding per match, in order.
FindingsOf(p, source, t, ctx) ==
    LET ms == finditer(p.cre, t)
    IN  [n \in DOMAIN ms |-> Finding(p.name, p.raw, t, ms[n], ctx, source)]

\* A mutant of scan_text: only the first match of each pattern is reported.
RECURSIVE scan_text_FirstMatch(_, _, _, _)
scan_text_FirstMatch(source, t, patterns, ctx) ==
    IF patterns = <<>> THEN <<>>
    ELSE LET fs == FindingsOf(Head(patterns), source, t, ctx)
         IN  SubSeq(fs, 1, Min(1, Len(fs)))
                \o scan_text_FirstMatch(source, t, Tail(patterns), ctx)

\* scan_text(source, text, compiled_patterns, context)
RECURSIVE scan_text(_, _, _, _)
scan_text(source, t, patterns, ctx) ==
    IF patterns = <<>> THEN <<>>
    ELSE FindingsOf(Head(patterns), source, t, ctx)
            \o scan_text(source, t, Tail(patterns), ctx)

(***************************************************************************)
(* scanner.py: fetch_url.  The k-th requests.get of a URL has one of the   *)
(* outcomes "ok" (a success status; r.text is the body), "http_error"      *)
(* (raise_for_status raises) and "exception" (the GET itself raises, e.g.  *)
(* a timeout).  fetch_url is modelled by what it does, in order: the       *)
(* events "get", "diag" (the stderr line) and "sleep", and its result.     *)
(***************************************************************************)
Outcomes == {"ok", "http_error", "exception"}

Event(ev, attempt, outcome, delay) ==
    [ev |-> ev, attempt |-> attempt, outcome |-> outcome, delay |-> delay]

Return(body) == [kind |-> "return", text |-> body, error |-> "none"]
Raise(error) == [kind |-> "raise", text |-> <<>>, error |-> error]

\* A mutant of Pow2: the delay does not grow.
Pow2Constant(n) == 1

RECURSIVE Pow2(_)
Pow2(n) == IF n <= 0 THEN 1 ELSE 2 * Pow2(n - 1)

\* A mutant of LoopDone: one attempt more than `retries` (an initial attempt
\* plus `retries` retries).
LoopDoneOneMore(attempt, n_retries) == attempt > n_retries + 1

\* for attempt in range(1, retries + 1): the loop is over
LoopDone(attempt, n_retries) == attempt > n_retries

\* A mutant of FinalFailure: the last failure is swallowed and an empty text
\* returned.
FinalFailureSwallowed(error) == Return(<<>>)

\* if attempt == retries: raise
FinalFailure(error) == Raise(error)

\* The for loop of fetch_url from `attempt` on, after the events `events`.
RECURSIVE fetch_loop(_, _, _, _, _, _)
fetch_loop(outs, body, n_retries, n_backoff, attempt, events) ==
    IF LoopDone(attempt, n_retries)
    THEN [events |-> events, result |-> Raise("RuntimeError")]
    ELSE LET o     == outs[attempt]
             got   == events \o <<Event("get", attempt, o, 0)>>
             delay == n_backoff * Pow2(attempt - 1)
         IN  IF o = "ok" THEN [events |-> got, result |-> Return(body)]
             ELSE IF attempt = n_retries
                  THEN [events |-> got, result |-> FinalFailure(o)]
             ELSE fetch_loop(outs, body, n_retries, n_backoff, attempt + 1,
                             got \o <<Event("diag", attempt, o, delay),
                                      Event("sleep", attempt, o, delay)>>)

\* fetch_url(url, retries=n_retries, backoff=n_backoff), where outs[k] is the
\* outcome of the k-th GET of the URL and body the text it serves.
fetch_url(outs, body, n_retries, n_backoff) ==
    fetch_loop(outs, body, n_retries, n_backoff, 1, <<>>)

(***************************************************************************)
(* scanner.py: read_file, scan_many.  What a target's value holds is the   *)
(* world's: for a URL the outcome of each GET and the body served, for a   *)
(* path whether the file can be read and its text.                         *)
(***************************************************************************)
UrlWorld ==
    [v \in {"u1", "u2"} |->
        IF v = "u1"
        THEN [outs |-> [k \in 1..20 |-> IF k = 1 THEN "http_error" ELSE "ok"],
              body |-> <<"a", "a">>]
        ELSE [outs |-> [k \in 1..20 |-> IF k = 1 THEN "http_error" ELSE "exception"],
              body |-> <<"a">>]]

FileWorld ==
    [v \in {"f1", "f2"} |->
        IF v = "f1" THEN [readable |-> TRUE, body |-> <<"b", "a">>]
        ELSE [readable |-> FALSE, body |-> <<>>]]

\* read_file(path): the text, or the OSError Path.read_text raises.
read_file(path) ==
    IF FileWorld[path].readable THEN Return(FileWorld[path].body)
    ELSE Raise("OSError")

\* The try block of _work up to the content: fetch_url or read_file.
Content(t, n_retries, n_backoff) ==
    IF t.kind = "url"
    THEN fetch_url(UrlWorld[t.value].outs, UrlWorld[t.value].body,
                   n_retries, n_backoff).result
    ELSE read_file(t.value)

\* What a finished unit of work left in its Future: a value, or an exception.
Value(v) == [exc |-> FALSE, value |-> v]
Exception == [exc |-> TRUE, value |-> <<>>]

\* A mutant of work: no except clause, the exception escapes into the Future.
work_NoExcept(t, patterns, ctx, n_retries, n_backoff) ==
    LET content == Content(t, n_retries, n_backoff)
    IN  IF content.kind = "raise" THEN Exception
        ELSE Value(scan_text(t.value, content.text, patterns, ctx))

\* _work(kind, value), with the compiled_patterns, context, retries and backoff
\* of the enclosing scan_many: except Exception -> stderr line, return []
work(t, patterns, ctx, n_retries, n_backoff) ==
    LET content == Content(t, n_retries, n_backoff)
    IN  IF content.kind = "raise" THEN Value(<<>>)
        ELSE Value(scan_text(t.value, content.text, patterns, ctx))

(***************************************************************************)
(* The calls of scan_many explored: the targets are drawn from              *)
(* TargetUniverse, the patterns are ScanPatterns, the context is            *)
(* MaxContext, retries and backoff (in milliseconds) are the defaults.      *)
(* _work is a function of its target under these options; Unit is its      *)
(* result for each target.                                                  *)
(***************************************************************************)
MaxContext == 1
DefaultRetries == 3
DefaultBackoff == 500

TargetUniverse ==
    {[kind |-> "url", value |-> "u1"], [kind |-> "url", value |-> "u2"],
     [kind |-> "file", value |-> "f1"], [kind |-> "file", value |-> "f2"]}

ScanPatterns ==
    <<[name |-> "A", raw |-> "aa", cre |-> [kind |-> "lit",  s |-> <<"a", "a">>]],
      [name |-> "A", raw |-> "a*", cre |-> [kind |-> "star", s |-> <<"a">>]]>>

Unit ==
    [t \in TargetUniverse |->
        work(t, ScanPatterns, MaxContext, DefaultRetries, DefaultBackoff)]

NewFuture == [state |-> "new", exc |-> FALSE, value |-> <<>>]

Submitted == {n \in DOMAIN futs : futs[n].state # "new"}
Pending   == {n \in DOMAIN futs : futs[n].state = "pending"}
Running   == {n \in DOMAIN futs : futs[n].state = "running"}
Finished  == {n \in DOMAIN futs : futs[n].state = "finished"}

\* futs = [ex.submit(_work, k, v) for k, v in targets]: the next submit.
Submit ==
    /\ sc_pc = "submit"
    /\ Cardinality(Submitted) < Len(targets)
    /\ futs' = [futs EXCEPT ![Cardinality(Submitted) + 1].state = "pending"]
    /\ UNCHANGED <<sc_pc, targets, max_workers, yielded, results, calls, sanVars, txtVars, fetchVars, cliVars>>

\* The list of futures is built: the as_completed loop starts.
AllSubmitted ==
    /\ sc_pc = "submit"
    /\ Cardinality(Submitted) = Len(targets)
    /\ sc_pc' = "collect"
    /\ UNCHANGED <<targets, max_workers, futs, yielded, results, calls, sanVars, txtVars, fetchVars, cliVars>>

\* A mutant of WorkerIdle: the pool starts a thread for every work item.
WorkerIdleAlways == TRUE

\* ThreadPoolExecutor(max_workers=max_workers): a worker thread is idle, or
\* the pool may still start one.
WorkerIdle == Cardinality(Running) < max_workers

\* A worker thread of the pool (there are at most max_workers) takes the
\* oldest queued work item and starts _work.
WorkerStart(n) ==
    /\ n \in Pending
    /\ \A m \in Pending : n <= m
    /\ WorkerIdle
    /\ futs' = [futs EXCEPT ![n].state = "running"]
    /\ UNCHANGED <<sc_pc, targets, max_workers, yielded, results, calls, sanVars, txtVars, fetchVars, cliVars>>

\* _work returns (or raises) and the Future is set.
WorkerFinish(n) ==
    /\ n \in Running
    /\ futs' = [futs EXCEPT ![n] = [state |-> "finished",
                                    exc   |-> Unit[targets[n]].exc,
                                    value |-> Unit[targets[n]].value]]
    /\ UNCHANGED <<sc_pc, targets, max_workers, yielded, results, calls, sanVars, txtVars, fetchVars, cliVars>>

\* A mutant of Extend: the new Findings go in after the first one collected.
ExtendInterleaves(acc, value) ==
    IF acc = <<>> THEN value ELSE <<Head(acc)>> \o value \o Tail(acc)

\* A mutant of Extend: the accumulator is assigned, not extended.
ExtendAssigns(acc, value) == value

\* results.extend(fut.result())
Extend(acc, value) == acc \o value

\* A mutant of NotYetYielded: as_completed may yield a finished future again.
YieldedAgain == Finished

\* as_completed yields each future once: the finished ones not yet yielded.
NotYetYielded == Finished \ yielded

\* for fut in as_completed(futs): results.extend(fut.result()).  as_completed
\* yields a finished future not yet yielded; fut.result() re-raises what the
\* unit of work raised.
Collect(n) ==
    /\ sc_pc = "collect"
    /\ n \in NotYetYielded
    /\ yielded' = yielded \cup {n}
    /\ IF futs[n].exc
       THEN sc_pc' = "raising" /\ UNCHANGED results
       ELSE sc_pc' = sc_pc /\ results' = Extend(results, futs[n].value)
    /\ UNCHANGED <<targets, max_workers, futs, calls, sanVars, txtVars, fetchVars, cliVars>>

\* A mutant of AsCompletedExhausted: the loop ends as soon as no finished
\* future is left to yield.
AsCompletedPolls == Finished \subseteq yielded

\* as_completed(futs) is exhausted: every future has been yielded.
AsCompletedExhausted == yielded = DOMAIN futs

\* The as_completed loop ends; the with block is left.
LoopEnd ==
    /\ sc_pc = "collect"
    /\ AsCompletedExhausted
    /\ sc_pc' = "exit"
    /\ UNCHANGED <<targets, max_workers, futs, yielded, results, calls, sanVars, txtVars, fetchVars, cliVars>>

\* ThreadPoolExecutor.__exit__: shutdown(wait=True) joins the workers, which
\* run every queued work item first; then scan_many returns results, or the
\* exception of fut.result() propagates.
Exit ==
    /\ sc_pc \in {"exit", "raising"}
    /\ Finished = DOMAIN futs
    /\ sc_pc' = IF sc_pc = "exit" THEN "returned" ELSE "raised"
    /\ calls' = IF sc_pc = "exit"
                THEN Append(calls, [max_workers |-> max_workers, results |-> results])
                ELSE calls
    /\ UNCHANGED <<targets, max_workers, futs, yielded, results, sanVars, txtVars, fetchVars, cliVars>>

\* The pool sizes compared: 1, and the default 20.
WorkerChoices == {1, 20}

\* The values of --concurrent tried; main passes max(1, args.concurrent).
ConcurrentChoices == {0} \cup WorkerChoices

\* scan_many is called again, on the same targets and patterns, with the
\* other pool size.
Call ==
    /\ sc_pc = "returned"
    /\ Len(calls) < 2
    /\ \E w \in WorkerChoices \ {max_workers} : max_workers' = w
    /\ sc_pc' = "submit"
    /\ futs' = [n \in DOMAIN targets |-> NewFuture]
    /\ yielded' = {}
    /\ results' = <<>>
    /\ UNCHANGED <<targets, calls, sanVars, txtVars, fetchVars, cliVars>>

\* The steps of the main thread, and of the pool's worker threads.
MainStep == Submit \/ AllSubmitted \/ (\E n \in DOMAIN futs : Collect(n)) \/ LoopEnd \/ Exit
WorkerStep == \E n \in DOMAIN futs : WorkerStart(n) \/ WorkerFinish(n)

(***************************************************************************)
(* The patterns the sanitizer is applied to: every concatenation of at     *)
(* most MaxPatTokens tokens.                                               *)
(***************************************************************************)
MaxPatTokens == 5

PatTokens ==
    {<<"(", "?">>, <<"(", "?", "i", ")">>,
     <<"i">>, <<"m">>, <<"-">>, <<":">>, <<")">>}

SanitizerInputs ==
    {Flatten(ts) : ts \in UNION {[1..n -> PatTokens] : n \in 0..MaxPatTokens}}

NotSanitized == [text |-> <<>>, extra |-> {}, kept |-> {}]

InitSanitize ==
    /\ san_pc = "call"
    /\ pat \in SanitizerInputs
    /\ sanitized = NotSanitized

\* The sanitizer is not in use.
IdleSanitize == san_pc = "idle" /\ pat = <<>> /\ sanitized = NotSanitized

Sanitize ==
    /\ san_pc = "call"
    /\ san_pc' = "return"
    /\ sanitized' = sanitize_inline_flags(pat)
    /\ UNCHANGED <<pat, txtVars, fetchVars, scanVars, cliVars>>

(***************************************************************************)
(* The texts, pattern sets and context sizes scan_text and context_snippet *)
(* are applied to.                                                         *)
(***************************************************************************)
MaxTextLen == 4
MaxPatterns == 2

Texts(alphabet) == UNION {[1..n -> alphabet] : n \in 0..MaxTextLen}

\* Two patterns share the name "A": names need not be unique.
PatternUniverse ==
    {[name |-> "A", raw |-> "aa",  cre |-> [kind |-> "lit",  s |-> <<"a", "a">>]],
     [name |-> "A", raw |-> "a*",  cre |-> [kind |-> "star", s |-> <<"a">>]],
     [name |-> "L", raw |-> "a*?", cre |-> [kind |-> "lazy", s |-> <<"a">>]]}

PatternSets == UNION {[1..n -> PatternUniverse] : n \in 0..MaxPatterns}

NoSnippet == [start |-> 0, end |-> 0, result |-> <<>>]

IdleText ==
    /\ txt_pc = "idle" /\ text = <<>> /\ compiled_patterns = <<>>
    /\ context = 0 /\ findings = <<>> /\ snip = NoSnippet

InitScanText ==
    /\ txt_pc = "call"
    /\ text \in Texts({"a", "b"})
    /\ compiled_patterns \in PatternSets
    /\ context \in 0..MaxContext
    /\ findings = <<>>
    /\ snip = NoSnippet

ScanText ==
    /\ txt_pc = "call"
    /\ txt_pc' = "return"
    /\ findings' = scan_text("mem", text, compiled_patterns, context)
    /\ UNCHANGED <<text, compiled_patterns, context, snip, sanVars, fetchVars, scanVars, cliVars>>

InitSnippet ==
    /\ txt_pc = "call"
    /\ text \in Texts({"a", " ", "\n", "\r"})
    /\ compiled_patterns = <<>>
    /\ context \in 0..MaxContext
    /\ findings = <<>>
    /\ snip = NoSnippet

\* context_snippet called with any span 0 <= start <= end <= len(text).
Snippet ==
    /\ txt_pc = "call"
    /\ txt_pc' = "return"
    /\ \E start \in 0..Len(text) : \E end \in start..Len(text) :
          snip' = [start |-> start, end |-> end,
                   result |-> context_snippet(text, start, end, context)]
    /\ UNCHANGED <<text, compiled_patterns, context, findings, sanVars, fetchVars, scanVars, cliVars>>

(***************************************************************************)
(* The calls of fetch_url: every retries value from 0 (the loop body never *)
(* runs, as for a negative value) to MaxRetries, and every outcome of each *)
(* GET.                                                                    *)
(***************************************************************************)
MaxRetries == 4

\* 0.5 s is the default.
Backoffs == {0, 500, 1000}

NotFetched == [events |-> <<>>, result |-> Raise("none")]

IdleFetch ==
    /\ fetch_pc = "idle" /\ retries = 0 /\ backoff = 0
    /\ outcomes = <<>> /\ fetched = NotFetched

InitFetch ==
    /\ fetch_pc = "call"
    /\ retries \in 0..MaxRetries
    /\ backoff \in Backoffs
    /\ outcomes \in [1..MaxRetries + 1 -> Outcomes]
    /\ fetched = NotFetched

Fetch ==
    /\ fetch_pc = "call"
    /\ fetch_pc' = "return"
    /\ fetched' = fetch_url(outcomes, <<"a">>, retries, backoff)
    /\ UNCHANGED <<retries, backoff, outcomes, sanVars, txtVars, scanVars, cliVars>>

(***************************************************************************)
(* The calls of scan_many: every list of at most MaxTargets targets (the   *)
(* same target may be listed twice), with two patterns, the default        *)
(* retries and backoff.                                                    *)
(***************************************************************************)
MaxTargets == 3

TargetLists == UNION {[1..n -> TargetUniverse] : n \in 0..MaxTargets}

IdleScan ==
    /\ sc_pc = "idle" /\ targets = <<>> /\ max_workers = 0 /\ futs = <<>>
    /\ yielded = {} /\ results = <<>> /\ calls = <<>>

InitScan ==
    /\ sc_pc = "submit"
    /\ targets \in TargetLists
    /\ max_workers \in {Max(1, concurrent) : concurrent \in ConcurrentChoices}
    /\ futs = [n \in DOMAIN targets |-> NewFuture]
    /\ yielded = {}
    /\ results = <<>>
    /\ calls = <<>>
    \* the options and patterns scan_many was given
    /\ txt_pc = "idle" /\ text = <<>> /\ findings = <<>> /\ snip = NoSnippet
    /\ compiled_patterns = ScanPatterns
    /\ context = MaxContext
    /\ fetch_pc = "idle" /\ outcomes = <<>> /\ fetched = NotFetched
    /\ retries = DefaultRetries
    /\ backoff = DefaultBackoff

(***************************************************************************)
(* patterns_loader.py: the loading of a templates directory.  A file of    *)
(* the directory has a recognized suffix or not, its text deserializes or  *)
(* not (parses), and the parsed value has a shape: a "list" of entries, a  *)
(* "mapping" (with or without the key `patterns`, whose value is a list of *)
(* entries or not), or a "scalar".  An entry is "ok" (an object with       *)
(* string name and pattern that compiles to p), "not_object", "missing"    *)
(* (name or pattern is not a string), "bad_flags" (flags is neither None   *)
(* nor a list) or "bad_regex" (re.compile raises).                         *)
(***************************************************************************)
NoError == [type |-> "none", what |-> "none", file |-> 0, idx |-> -1]
Error(type, what, file, idx) ==
    [type |-> type, what |-> what, file |-> file, idx |-> idx]

Entry(kind, p) == [kind |-> kind, p |-> p]

Data(shape, has_patterns, is_list, items) ==
    [shape |-> shape, has_patterns |-> has_patterns, is_list |-> is_list,
     items |-> items]

File(recognized, parses, data) ==
    [recognized |-> recognized, parses |-> parses, data |-> data]

\* A mutant of InvalidEntry: the message counts the entries from one.
InvalidEntryOneBased(what, src, idx) == Error("ValueError", what, src, idx + 1)

\* raise ValueError(f"Invalid ... at index {idx} in {src}: ...")
InvalidEntry(what, src, idx) == Error("ValueError", what, src, idx)

\* The for loop of _load_from_obj from entry idx on (idx counts from 0); src
\* is the file.  re.compile's error leaves _compile as it is, with no file
\* and no index.
RECURSIVE load_entries(_, _, _, _)
load_entries(items, src, idx, out) ==
    IF idx >= Len(items) THEN [out |-> out, error |-> NoError]
    ELSE LET item == items[idx + 1]
         IN  IF item.kind = "not_object"
             THEN [out |-> <<>>, error |-> InvalidEntry("entry", src, idx)]
             ELSE IF item.kind = "missing"
             THEN [out |-> <<>>, error |-> InvalidEntry("name/pattern", src, idx)]
             ELSE IF item.kind = "bad_flags"
             THEN [out |-> <<>>, error |-> InvalidEntry("flags", src, idx)]
             ELSE IF item.kind = "bad_regex"
             THEN [out |-> <<>>, error |-> Error("re.error", "compile", 0, -1)]
             ELSE load_entries(items, src, idx + 1, Append(out, item.p))

\* _load_from_obj(data, src)
load_from_obj(data, src) ==
    IF data.shape = "scalar"
    THEN [out |-> <<>>, error |-> Error("AttributeError", "get", 0, -1)]
    ELSE IF data.shape = "mapping" /\ ~data.has_patterns
    THEN load_entries(<<>>, src, 0, <<>>)
    ELSE IF data.shape = "mapping" /\ ~data.is_list
    THEN [out |-> <<>>, error |-> Error("ValueError", "structure", src, -1)]
    ELSE load_entries(data.items, src, 0, <<>>)

\* _load_one_file(path): the deserializer's own exception, or _load_from_obj
load_one_file(file, src) ==
    IF ~file.parses
    THEN [out |-> <<>>, error |-> Error("ParseError", "text", 0, -1)]
    ELSE load_from_obj(file.data, src)

\* A mutant of NoPatterns: an empty pattern list is returned like any other.
NoPatternsAccepted(ps) == FALSE

\* if not patterns: raise RuntimeError
NoPatterns(ps) == ps = <<>>

(***************************************************************************)
(* cli.py: main, the scan command.                                         *)
(***************************************************************************)
\* if not tdir.exists(): raise SystemExit
CheckTemplatesDir ==
    /\ cli_pc = "start"
    /\ IF tdir.exists
       THEN cli_pc' = "load" /\ UNCHANGED cli_error
       ELSE cli_pc' = "exit" /\ cli_error' = Error("SystemExit", "templates", 0, -1)
    /\ UNCHANGED <<tdir, file_no, loaded, main_patterns, sanVars, txtVars, fetchVars, scanVars>>

\* load_patterns_from_dir: the next path of rglob("*").  A file with a
\* recognized suffix is loaded and its patterns are appended; what
\* _load_one_file raises ends the loader and main.
LoadFile ==
    /\ cli_pc = "load"
    /\ file_no < Len(tdir.files)
    /\ file_no' = file_no + 1
    /\ LET p == tdir.files[file_no + 1]
           r == load_one_file(p, file_no + 1)
       IN  IF ~p.recognized
           THEN UNCHANGED <<cli_pc, loaded, cli_error>>
           ELSE IF r.error # NoError
           THEN cli_pc' = "exit" /\ cli_error' = r.error /\ UNCHANGED loaded
           ELSE loaded' = loaded \o r.out /\ UNCHANGED <<cli_pc, cli_error>>
    /\ UNCHANGED <<tdir, main_patterns, sanVars, txtVars, fetchVars, scanVars>>

\* load_patterns_from_dir after its for loop: no patterns is an error, else
\* the list is returned and main has its `patterns`.
LoadDone ==
    /\ cli_pc = "load"
    /\ file_no = Len(tdir.files)
    /\ IF NoPatterns(loaded)
       THEN /\ cli_pc' = "exit"
            /\ cli_error' = Error("RuntimeError", "no patterns", 0, -1)
            /\ UNCHANGED main_patterns
       ELSE cli_pc' = "gather" /\ main_patterns' = loaded /\ UNCHANGED cli_error
    /\ UNCHANGED <<tdir, file_no, loaded, sanVars, txtVars, fetchVars, scanVars>>

\* targets = _gather_targets(args.url, args.file): the list, or the
\* FileNotFoundError of --file; with no target the help is printed and
\* sys.exit(1) ends main.
GatherTargets ==
    /\ cli_pc = "gather"
    /\ \/ /\ cli_pc' = "exit"
          /\ cli_error' = Error("FileNotFoundError", "--file", 0, -1)
          /\ UNCHANGED targets
       \/ \E ts \in TargetLists :
             /\ targets' = ts
             /\ IF ts = <<>>
                THEN cli_pc' = "exit" /\ cli_error' = Error("SystemExit", "no targets", 0, -1)
                ELSE cli_pc' = "scan" /\ UNCHANGED cli_error
    /\ UNCHANGED <<tdir, file_no, loaded, main_patterns, sc_pc, max_workers, futs,
                   yielded, results, calls, sanVars, txtVars, fetchVars>>

\* findings = scan_many(targets, compiled_patterns=patterns, ...,
\* max_workers=max(1, args.concurrent), ...): scan_many starts.
CallScanMany ==
    /\ cli_pc = "scan"
    /\ cli_pc' = "scanning"
    /\ sc_pc' = "submit"
    /\ compiled_patterns' = main_patterns
    /\ \E concurrent \in ConcurrentChoices : max_workers' = Max(1, concurrent)
    /\ futs' = [n \in DOMAIN targets |-> NewFuture]
    /\ UNCHANGED <<tdir, file_no, loaded, main_patterns, cli_error, targets, yielded,
                   results, calls, txt_pc, text, context, findings, snip,
                   sanVars, fetchVars>>

(***************************************************************************)
(* The templates directories explored: up to MaxFiles files, in any order, *)
(* drawn from FileUniverse.                                                *)
(***************************************************************************)
MaxFiles == 2

FileUniverse ==
    LET A == Entry("ok", ScanPatterns[1])
        B == Entry("ok", ScanPatterns[2])
        Bad(kind) == Entry(kind, ScanPatterns[1])
        List(items) == Data("list", FALSE, TRUE, items)
    IN  { File(FALSE, TRUE, List(<<Bad("missing")>>)),
          File(TRUE, TRUE, List(<<A>>)),
          File(TRUE, TRUE, List(<<>>)),
          File(TRUE, TRUE, Data("mapping", TRUE, TRUE, <<B, A>>)),
          File(TRUE, TRUE, Data("mapping", FALSE, FALSE, <<>>)),
          File(TRUE, TRUE, Data("mapping", TRUE, FALSE, <<>>)),
          File(TRUE, TRUE, Data("scalar", FALSE, FALSE, <<>>)),
          File(TRUE, FALSE, List(<<>>)),
          File(TRUE, TRUE, List(<<A, Bad("missing")>>)),
          File(TRUE, TRUE, List(<<Bad("not_object")>>)),
          File(TRUE, TRUE, List(<<B, Bad("bad_flags")>>)),
          File(TRUE, TRUE, List(<<A, Bad("bad_regex")>>)) }

Directories ==
    {[exists |-> FALSE, files |-> <<>>]} \cup
    {[exists |-> TRUE, files |-> fs] :
        fs \in UNION {[1..n -> FileUniverse] : n \in 0..MaxFiles}}

IdleCli ==
    /\ cli_pc = "idle" /\ tdir = [exists |-> FALSE, files |-> <<>>]
    /\ file_no = 0 /\ loaded = <<>> /\ main_patterns = <<>> /\ cli_error = NoError

InitCli ==
    /\ cli_pc = "start"
    /\ tdir \in Directories
    /\ file_no = 0
    /\ loaded = <<>>
    /\ main_patterns = <<>>
    /\ cli_error = NoError

(***************************************************************************)
(* Specifications                                                          *)
(***************************************************************************)
NextSanitize == Sanitize
StartSanitize == InitSanitize /\ IdleText /\ IdleFetch /\ IdleScan /\ IdleCli
SpecSanitize == StartSanitize /\ [][NextSanitize]_vars

NextScanText == ScanText
StartScanText == InitScanText /\ IdleSanitize /\ IdleFetch /\ IdleScan /\ IdleCli
SpecScanText == StartScanText /\ [][NextScanText]_vars

NextSnippet == Snippet
StartSnippet == InitSnippet /\ IdleSanitize /\ IdleFetch /\ IdleScan /\ IdleCli
SpecSnippet == StartSnippet /\ [][NextSnippet]_vars

NextFetch == Fetch
StartFetch == InitFetch /\ IdleSanitize /\ IdleText /\ IdleScan /\ IdleCli
SpecFetch == StartFetch /\ [][NextFetch]_vars

\* scan_many, called twice.
NextScan == MainStep \/ WorkerStep \/ Call
StartScan == InitScan /\ IdleSanitize /\ IdleCli
SpecScan == StartScan /\ [][NextScan]_vars

\* One call of scan_many; every thread that can take a step eventually does.
NextScanOnce == MainStep \/ WorkerStep
SpecScanFair ==
    StartScan /\ [][NextScanOnce]_vars /\ WF_vars(MainStep) /\ WF_vars(WorkerStep)

\* main's scan command, up to the call of scan_many.
NextCli == CheckTemplatesDir \/ LoadFile \/ LoadDone \/ GatherTargets \/ CallScanMany
StartCli == InitCli /\ IdleSanitize /\ IdleText /\ IdleFetch /\ IdleScan
SpecCli == StartCli /\ [][NextCli]_vars

(***************************************************************************)
(* The inline-flag groups of a pattern, read off the pattern's text        *)
(* (independently of the sanitizer's own scan).                            *)
(***************************************************************************)

\* s is one or more of the characters i, m, s, x.
IsFlags(s) == Len(s) >= 1 /\ \A n \in DOMAIN s : s[n] \in {"i", "m", "s", "x"}

\* From position j inside `depth` open parentheses: the position of the ")"
\* that closes the outermost of them, or -1.
RECURSIVE CloseOf(_, _, _)
CloseOf(p, j, depth) ==
    IF j >= Len(p) THEN -1
    ELSE IF p[j + 1] = "(" THEN CloseOf(p, j + 1, depth + 1)
    ELSE IF p[j + 1] = ")"
         THEN IF depth = 1 THEN j ELSE CloseOf(p, j + 1, depth - 1)
    ELSE CloseOf(p, j + 1, depth)

\* The positions where "(?" stands, and the positions (counted from 1) of
\* the character ch.
GroupStarts(p) == {k \in 0 .. Len(p) - 2 : p[k + 1] = "(" /\ p[k + 2] = "?"}
Places(p, ch) == {n \in 1 .. Len(p) : p[n] = ch}

\* The scoped groups (?flags:...) and (?:...): k is the position of "(",
\* c of the header's ":", e of the closing ")".
ScopedGroups(p) ==
    {g \in UNION {{[k |-> k, c |-> n - 1, e |-> CloseOf(p, k + 1, 1)] :
                      n \in Places(p, ":")} : k \in GroupStarts(p)} :
        /\ g.k + 2 <= g.c /\ g.c < g.e
        /\ \A n \in g.k + 2 .. g.c - 1 : p[n + 1] \in {"i", "m", "s", "x", "-"}}

\* The unscoped groups (?on) and (?on-off): the group is p[k:e], on and off
\* are its flag characters.
UnscopedGroups(p) ==
    UNION {UNION {
        {[k |-> k, e |-> e, on |-> SubSeq(p, k + 3, e - 1), off |-> <<>>] :
            x \in {x \in {0} : IsFlags(SubSeq(p, k + 3, e - 1))}}
        \cup
        {[k |-> k, e |-> e, on |-> SubSeq(p, k + 3, d - 1),
          off |-> SubSeq(p, d + 1, e - 1)] :
            d \in {d \in Places(p, "-") :
                     /\ k + 3 < d /\ d < e - 1
                     /\ IsFlags(SubSeq(p, k + 3, d - 1))
                     /\ IsFlags(SubSeq(p, d + 1, e - 1))}}
        : e \in {e \in Places(p, ")") : e >= k + 4}} : k \in GroupStarts(p)}

\* The pure negation groups (?-off).
NegationGroups(p) ==
    UNION {{[k |-> k, e |-> e] :
               e \in {e \in Places(p, ")") :
                        /\ e >= k + 5 /\ p[k + 3] = "-"
                        /\ IsFlags(SubSeq(p, k + 4, e - 1))}} : k \in GroupStarts(p)}

\* The positions every unscoped or negation group of p covers.
FlagGroupPositions(p) ==
    UNION {g.k .. g.e - 1 : g \in UnscopedGroups(p)}
        \cup UNION {g.k .. g.e - 1 : g \in NegationGroups(p)}

\* C9 as stated: every character of every scoped group, from its "(" to its
\* closing ")", is copied to the output, whatever the group encloses.
C9_ScopedGroupUntouched ==
    san_pc = "return" =>
        \A g \in ScopedGroups(pat) : \A n \in g.k .. g.e : n \in sanitized.kept

\* C9 (amended): the header (?flags: of every scoped group is copied to the
\* output unchanged, and so is every character of the group that is not part
\* of an unscoped or negation flag group the scoped group encloses; the text
\* returned is the pattern's characters at the copied positions, in order.
C9_ScopedHeaderUntouched ==
    san_pc = "return" =>
        /\ \A g \in ScopedGroups(pat) :
            /\ \A n \in g.k .. g.c : n \in sanitized.kept
            /\ \A n \in g.c + 1 .. g.e :
                  n \notin sanitized.kept =>
                      n \in FlagGroupPositions(SubSeq(pat, 1, g.e)) /\ n < g.e
        /\ Len(sanitized.text) = Cardinality(sanitized.kept)

\* A scoped group with flags in its header and a body has been sanitized.
C9_Witness ==
    /\ san_pc = "return"
    /\ \E g \in ScopedGroups(pat) : g.c > g.k + 2 /\ g.e > g.c + 1

\* C10: every unscoped group (?on) or (?on-off) is removed from the output,
\* wherever it stands, and the extra flags returned are exactly the flags of
\* the "on" characters of those groups.
C10_UnscopedRemovedOnFlagsKept ==
    san_pc = "return" =>
        /\ \A g \in UnscopedGroups(pat) :
              \A n \in g.k .. g.e - 1 : n \notin sanitized.kept
        /\ sanitized.extra =
              UNION {{INLINE_FLAG_MAP[g.on[n]] : n \in DOMAIN g.on} :
                        g \in UnscopedGroups(pat)}

\* A group with "on" and "off" characters has been sanitized.
C10_Witness ==
    /\ san_pc = "return"
    /\ \E g \in UnscopedGroups(pat) : g.off # <<>> /\ g.on # g.off
    /\ sanitized.extra # {}

(***************************************************************************)
(* scan_text and context_snippet                                           *)
(***************************************************************************)

\* The matches of cre in t from pos on, as the claim words find-all: take the
\* leftmost match at or after pos, resume at its end, one position later
\* after an empty match.
RECURSIVE FindAllResumeLater(_, _, _)
FindAllResumeLater(cre, t, pos) ==
    LET m == Search(cre, t, pos, FALSE)
    IN  IF m.end = -1 THEN <<>>
        ELSE <<SubSeq(t, m.start + 1, m.end)>>
                \o FindAllResumeLater(cre, t,
                       IF m.end > m.start THEN m.end ELSE m.start + 1)

\* The matches of cre in t from pos on, as re.finditer finds them: resume at
\* the end of the match; right after an empty match at position q, a match
\* that starts at q must not be empty.
RECURSIVE FindAllNonEmptyNext(_, _, _, _)
FindAllNonEmptyNext(cre, t, pos, after_empty) ==
    LET here  == MatchAt(cre, t, pos, after_empty)
        later == Search(cre, t, pos + 1, FALSE)
        m     == IF pos > Len(t) THEN [start |-> pos, end |-> -1]
                 ELSE IF here # -1 THEN [start |-> pos, end |-> here]
                 ELSE later
    IN  IF m.end = -1 THEN <<>>
        ELSE <<SubSeq(t, m.start + 1, m.end)>>
                \o FindAllNonEmptyNext(cre, t, m.end, m.end = m.start)

RECURSIVE ConcatOver(_, _, _)
ConcatOver(F(_, _), patterns, t) ==
    IF patterns = <<>> THEN <<>>
    ELSE F(Head(patterns).cre, t) \o ConcatOver(F, Tail(patterns), t)

ResumeLaterMatches(cre, t) == FindAllResumeLater(cre, t, 0)
NonEmptyNextMatches(cre, t) == FindAllNonEmptyNext(cre, t, 0, FALSE)

MatchesOf(fs) == [n \in DOMAIN fs |-> fs[n].match]

\* C7 as stated: scan_text returns one Finding per match, counting for each
\* pattern the matches found by resuming at the match end and one position
\* later after an empty match; each Finding's match is the matched substring.
C7_CountResumeOneLater ==
    txt_pc = "return" =>
        MatchesOf(findings) = ConcatOver(ResumeLaterMatches, compiled_patterns, text)

\* C7 (amended): scan_text returns one Finding per match of every pattern
\* (duplicate names included), where the matches of a pattern are found left
\* to right without overlap, resuming at the match end, and right after an
\* empty match the next match may start at the same position only if it is
\* not empty (otherwise it starts later); each Finding's match is the
\* matched substring.
C7_CountFindAll ==
    txt_pc = "return" =>
        MatchesOf(findings) = ConcatOver(NonEmptyNextMatches, compiled_patterns, text)

\* Two patterns of the same name have been matched, one of them with an
\* empty match, and more Findings than patterns were returned.
C7_Witness ==
    /\ txt_pc = "return"
    /\ Len(compiled_patterns) = 2
    /\ compiled_patterns[1].name = compiled_patterns[2].name
    /\ compiled_patterns[1] # compiled_patterns[2]
    /\ \E n \in DOMAIN findings : findings[n].match = <<>>
    /\ \E n \in DOMAIN findings : Len(findings[n].match) = 2
    /\ Len(findings) > 3

\* C8: the context is a piece of the window [start - context, end + context]
\* clamped to the text, with its line breaks turned into spaces; it is at
\* most 2*context + (end - start) long and holds neither "\n" nor "\r".
C8_ContextWindow ==
    txt_pc = "return" =>
        LET lo == Max(0, snip.start - context)
            hi == Min(Len(text), snip.end + context)
            r  == snip.result
        IN  /\ Len(r) <= 2 * context + (snip.end - snip.start)
            /\ \A n \in DOMAIN r : r[n] # "\n" /\ r[n] # "\r"
            /\ \E a \in lo..hi :
                  /\ a + Len(r) <= hi
                  /\ \A n \in DOMAIN r :
                        \/ r[n] = text[a + n]
                        \/ r[n] = " " /\ text[a + n] \in {"\n", "\r"}

\* A window clamped at the start of the text, holding a carriage return and a
\* line break between other characters.
C8_Witness ==
    /\ txt_pc = "return"
    /\ snip.start - context < 0
    /\ snip.end > snip.start
    /\ \E n \in 2..Len(text) - 1 : text[n] = "\r"
    /\ \E n \in 2..Len(text) - 1 : text[n] = "\n"
    /\ Len(snip.result) = Len(text)

(***************************************************************************)
(* fetch_url                                                               *)
(***************************************************************************)

\* The HTTP GETs fetch_url made, in order.
IsGet(e) == e.ev = "get"
Gets == SelectSeq(fetched.events, IsGet)

\* C2: fetch_url makes at most `retries` GETs; each GET but the first comes
\* right after a failed one, and none follows a successful one.
C2_AtMostRetriesAttempts ==
    fetch_pc = "return" =>
        /\ Len(Gets) <= retries
        /\ \A n \in DOMAIN Gets : Gets[n].attempt = n
        /\ \A n \in DOMAIN Gets :
              n < Len(Gets) => Gets[n].outcome # "ok"

\* With retries >= 2 every allowed attempt was made, the last one succeeding.
C2_Witness ==
    /\ fetch_pc = "return"
    /\ retries >= 2
    /\ Len(Gets) = retries
    /\ Gets[retries].outcome = "ok"
    /\ fetched.result.kind = "return"

\* C3: whatever `retries` is, when every attempt fails (the GET raises or the
\* status is not a success) fetch_url ends by raising, and returns no text.
C3_FailureIsRaised ==
    fetch_pc = "return" =>
        ((\A k \in 1..retries : outcomes[k] # "ok") =>
            /\ fetched.result.kind = "raise"
            /\ fetched.result.text = <<>>
            /\ fetched.result.error \in {"http_error", "exception", "RuntimeError"}
            /\ Len(Gets) = retries)

\* Several attempts failed, by a bad status and by an exception, and the last
\* failure was raised.
C3_Witness ==
    /\ fetch_pc = "return"
    /\ retries >= 2
    /\ \A k \in 1..retries : outcomes[k] # "ok"
    /\ \E k \in 1..retries : outcomes[k] = "http_error"
    /\ outcomes[retries] = "exception"
    /\ fetched.result = Raise("exception")

(***************************************************************************)
(* scan_many                                                               *)
(***************************************************************************)

\* The number of times x occurs in the sequence s, and s as a bag.
Count(s, x) == Cardinality({n \in DOMAIN s : s[n] = x})
BagOfSeq(s) == [x \in Range(s) |-> Count(s, x)]

RECURSIVE Repeat(_, _)
Repeat(s, n) == IF n <= 0 THEN <<>> ELSE s \o Repeat(s, n - 1)

\* The retrieval of a target fails: every GET the retries allow fails, or the
\* file cannot be read.
RetrievalFails(t) ==
    IF t.kind = "url"
    THEN \A k \in 1..retries : UrlWorld[t.value].outs[k] # "ok"
    ELSE ~FileWorld[t.value].readable

\* The Findings the content of a target yields.
OwnFindings(t) ==
    LET body == IF t.kind = "url" THEN UrlWorld[t.value].body
                ELSE FileWorld[t.value].body
    IN  scan_text(t.value, body, compiled_patterns, context)

\* The Findings of the list fs whose source is v, in order.
FromSource(fs, v) == LET Is(f) == f.source = v IN SelectSeq(fs, Is)

\* C1: scan_many never ends by raising, and when it returns, a target whose
\* retrieval failed has no Finding in the result while every other target has
\* exactly the Findings of its own content there (once per occurrence in the
\* target list).
C1_FailedTargetIsolated ==
    /\ sc_pc \notin {"raising", "raised"}
    /\ sc_pc = "returned" =>
          \A t \in Range(targets) :
              FromSource(results, t.value) =
                  IF RetrievalFails(t) THEN <<>>
                  ELSE Repeat(OwnFindings(t), Count(targets, t))

\* scan_many returned the Findings of a target listed next to a URL whose
\* every fetch attempt failed and a file whose read raised.
C1_Witness ==
    /\ sc_pc = "returned"
    /\ \E n \in DOMAIN targets : targets[n].kind = "url" /\ RetrievalFails(targets[n])
    /\ \E n \in DOMAIN targets : ~RetrievalFails(targets[n])
    /\ results # <<>>

\* C4: two calls of scan_many on the same targets, patterns and contents,
\* whatever their max_workers (1 and 20) and whatever the interleaving of the
\* workers, return the same Findings up to order.
C4_SameFindingsAnyWorkers ==
    \A a, b \in DOMAIN calls :
        BagOfSeq(calls[a].results) = BagOfSeq(calls[b].results)

\* A call with max_workers = 1 and a call with max_workers = 20 returned the
\* same Findings in different orders.
C4_Witness ==
    /\ Len(calls) = 2
    /\ calls[1].max_workers = 1 /\ calls[2].max_workers = 20
    /\ calls[1].results # calls[2].results
    /\ calls[1].results # <<>>

\* C5: when scan_many has returned, every target's unit of work has finished
\* (none is queued or running) and as_completed has yielded it; and once
\* every unit has finished, scan_many does return.
C5_ReturnsAfterAllUnits ==
    /\ [](sc_pc = "returned" =>
            /\ \A n \in DOMAIN targets : futs[n].state = "finished"
            /\ yielded = DOMAIN targets)
    /\ ((sc_pc # "idle" /\ \A n \in DOMAIN targets : futs[n].state = "finished")
            ~> sc_pc = "returned")

\* scan_many returned after units of work that ran at the same time, one of
\* which ended by its own error.
C5_Witness ==
    /\ sc_pc = "returned"
    /\ Len(targets) >= 2 /\ max_workers = 20
    /\ \E n \in DOMAIN targets : RetrievalFails(targets[n])
    /\ \E n \in DOMAIN targets : ~RetrievalFails(targets[n])

(***************************************************************************)
(* The scan command and the template load errors.                          *)
(***************************************************************************)
\* The loader finds an error in a file: its text does not deserialize, the
\* parsed value is a scalar, `patterns` is not a list, or an entry is not ok.
HasLoadError(file) ==
    \/ ~file.parses
    \/ file.data.shape = "scalar"
    \/ file.data.shape = "mapping" /\ file.data.has_patterns /\ ~file.data.is_list
    \/ \E n \in DOMAIN file.data.items : file.data.items[n].kind # "ok"

\* Every pattern of every recognized file of the directory, in order.
AllPatterns(files) ==
    Flatten([k \in DOMAIN files |->
                IF files[k].recognized
                THEN [n \in DOMAIN files[k].data.items |-> files[k].data.items[n].p]
                ELSE <<>>])

\* The load of the directory d must fail: it is missing, a recognized file has
\* a load error, or there is no pattern at all.
LoadMustFail(d) ==
    \/ ~d.exists
    \/ \E k \in DOMAIN d.files : d.files[k].recognized /\ HasLoadError(d.files[k])
    \/ AllPatterns(d.files) = <<>>

FirstBadFile(d) ==
    LET bad == {k \in DOMAIN d.files :
                    d.files[k].recognized /\ HasLoadError(d.files[k])}
    IN  IF bad = {} THEN 0 ELSE CHOOSE k \in bad : \A j \in bad : k <= j

\* The entries of a parsed file, and the first of them that is not ok, or 0.
FirstBadEntry(file) ==
    LET bad == {n \in DOMAIN file.data.items : file.data.items[n].kind # "ok"}
    IN  IF bad = {} THEN 0 ELSE CHOOSE n \in bad : \A j \in bad : n <= j

\* The value of the file is a sequence of entries, or a mapping whose
\* `patterns` is one.
ShapeOk(file) ==
    /\ file.parses
    /\ \/ file.data.shape = "list"
       \/ file.data.shape = "mapping" /\ file.data.has_patterns /\ file.data.is_list

\* The loader ended (main is past it) on an existing directory.
LoaderEnded == tdir.exists /\ cli_pc \in {"gather", "scan", "scanning", "exit"}

\* C11: load_patterns_from_dir on an existing directory with no pattern entry
\* and no faulty file fails with the no-patterns error; on a directory whose
\* first faulty file has, as its first faulty entry, one without a string
\* name/pattern, it fails with the invalid-entry error that names that file
\* and the entry's zero-based index; in both cases no list is returned.
C11_NoPatternsAndMissingPattern ==
    LoaderEnded =>
        LET k == FirstBadFile(tdir) IN
        /\ (k = 0 /\ AllPatterns(tdir.files) = <<>>) =>
              /\ cli_error = Error("RuntimeError", "no patterns", 0, -1)
              /\ main_patterns = <<>> /\ cli_pc = "exit"
        /\ (k # 0 /\ ShapeOk(tdir.files[k])
                  /\ tdir.files[k].data.items[FirstBadEntry(tdir.files[k])].kind = "missing") =>
              /\ cli_error = Error("ValueError", "name/pattern", k,
                                   FirstBadEntry(tdir.files[k]) - 1)
              /\ main_patterns = <<>> /\ cli_pc = "exit"

\* The loader failed on the second entry (index 1) of the second file, which
\* lacks the pattern.
C11_Witness ==
    /\ LoaderEnded
    /\ cli_error = Error("ValueError", "name/pattern", 2, 1)
    /\ main_patterns = <<>>

\* The parsed value of the file has a shape other than a sequence of entries or
\* a mapping whose `patterns` is a sequence.
BadShape(file) == file.parses /\ ~ShapeOk(file)

\* C12: when the first file the loader cannot accept is one whose parsed value
\* is neither a sequence of entries nor a mapping with a sequence under
\* `patterns`, the load fails with the invalid-template-structure error.
C12_BadShapeIsStructureError ==
    LoaderEnded =>
        \A k \in DOMAIN tdir.files :
            ( /\ tdir.files[k].recognized
              /\ BadShape(tdir.files[k])
              /\ \A j \in 1..(k - 1) :
                    tdir.files[j].recognized =>
                        ~HasLoadError(tdir.files[j]) /\ ~BadShape(tdir.files[j]) )
            => /\ cli_pc = "exit"
               /\ cli_error.type = "ValueError"
               /\ cli_error.what = "structure"

(***************************************************************************)
(* fetch_url: the waits between the attempts.                              *)
(***************************************************************************)
\* backoff, 2 * backoff, 4 * backoff, ...: the wait after the n-th failure.
RECURSIVE WaitAfter(_)
WaitAfter(n) == IF n <= 1 THEN backoff ELSE 2 * WaitAfter(n - 1)

\* C13: in what fetch_url did, a failed GET number n < retries is followed by
\* the diagnostic and then the sleep, both of backoff * 2^(n-1), and then by
\* GET number n + 1; there is no other diagnostic or sleep, and the failed GET
\* number `retries` is the last event.
C13_ExponentialBackoff ==
    fetch_pc = "return" =>
        LET ev == fetched.events IN
        \A i \in DOMAIN ev :
            /\ (ev[i].ev = "get" /\ ev[i].outcome # "ok" /\ ev[i].attempt < retries) =>
                  /\ i + 3 <= Len(ev)
                  /\ ev[i + 1].ev = "diag" /\ ev[i + 1].delay = WaitAfter(ev[i].attempt)
                  /\ ev[i + 2].ev = "sleep" /\ ev[i + 2].delay = WaitAfter(ev[i].attempt)
                  /\ ev[i + 3].ev = "get" /\ ev[i + 3].attempt = ev[i].attempt + 1
            /\ (ev[i].ev = "get" /\ (ev[i].outcome = "ok" \/ ev[i].attempt >= retries)) =>
                  i = Len(ev)
            /\ ev[i].ev = "diag" =>
                  i > 1 /\ ev[i - 1].ev = "get" /\ ev[i - 1].outcome # "ok"
            /\ ev[i].ev = "sleep" => i > 1 /\ ev[i - 1].ev = "diag"

\* Four attempts failed: fetch_url slept backoff, 2 * backoff and 4 * backoff
\* (0.5 s, 1 s, 2 s) and did not sleep after the last failure.
C13_Witness ==
    /\ fetch_pc = "return"
    /\ retries = 4 /\ backoff = 500
    /\ fetched.result.kind = "raise"
    /\ LET IsSleep(e) == e.ev = "sleep"
           sleeps == SelectSeq(fetched.events, IsSleep)
       IN  /\ Len(sleeps) = 3
           /\ sleeps[1].delay = 500 /\ sleeps[2].delay = 1000 /\ sleeps[3].delay = 2000
    /\ fetched.events[Len(fetched.events)].ev = "get"

(***************************************************************************)
(* scan_many: the pool.                                                    *)
(***************************************************************************)
\* C14: at every moment of scan_many the units of work in progress are at most
\* max_workers, and max_workers is at least 1 whatever --concurrent was.
C14_AtMostMaxWorkersInProgress ==
    sc_pc # "idle" =>
        /\ Cardinality(Running) <= max_workers
        /\ max_workers >= 1

\* The pool of one worker is busy while another unit of work is queued.
C14_Witness ==
    /\ max_workers = 1
    /\ Cardinality(Running) = 1
    /\ Pending # {}

\* The Findings the unit of work of target t must contribute.
Expected(t) == IF RetrievalFails(t) THEN <<>> ELSE OwnFindings(t)

\* How often the Finding f occurs in the Findings of the first n targets.
RECURSIVE ExpectedCount(_, _)
ExpectedCount(n, f) ==
    IF n = 0 THEN 0
    ELSE Count(Expected(targets[n]), f) + ExpectedCount(n - 1, f)

\* C15: when scan_many returns, every Finding occurs in the result as often
\* as in the Finding lists of the submitted targets together (a target listed
\* twice counts twice); and the accumulator only ever changes by the main
\* thread's extending it with the result of one newly yielded future (or by
\* being created anew for the next call), never by a worker.
C15_ResultIsUnionOfUnits ==
    /\ [](sc_pc = "returned" =>
            \A f \in Range(results) \cup
                      UNION {Range(Expected(targets[n])) : n \in DOMAIN targets} :
                Count(results, f) = ExpectedCount(Len(targets), f))
    /\ [][results' # results =>
            \/ /\ sc_pc = "collect" /\ futs' = futs
               /\ \E n \in DOMAIN futs :
                     /\ n \notin yielded /\ yielded' = yielded \cup {n}
                     /\ results' = results \o futs[n].value
            \/ sc_pc = "returned" /\ sc_pc' = "submit" /\ results' = <<>>]_vars

\* scan_many returned the Findings of a target that was listed twice.
C15_Witness ==
    /\ sc_pc = "returned"
    /\ \E a, b \in DOMAIN targets :
          /\ a < b /\ targets[a] = targets[b]
          /\ Expected(targets[a]) # <<>>
          /\ Len(FromSource(results, targets[a].value))
                >= 2 * Len(Expected(targets[a]))

\* C16: when the first faulty entry the loader meets is one whose pattern does
\* not compile, the load fails as a whole (no list is returned) with an error
\* that identifies the file and the entry's index.
C16_CompileErrorNamesFileAndIndex ==
    LoaderEnded =>
        LET k == FirstBadFile(tdir) IN
        (k # 0 /\ ShapeOk(tdir.files[k])
               /\ tdir.files[k].data.items[FirstBadEntry(tdir.files[k])].kind = "bad_regex") =>
            /\ cli_pc = "exit" /\ main_patterns = <<>>
            /\ cli_error.type # "none"
            /\ cli_error.file = k
            /\ cli_error.idx = FirstBadEntry(tdir.files[k]) - 1

(***************************************************************************)
(* _sanitize_inline_flags: further properties.                             *)
(***************************************************************************)
\* The "(?" at position k is not terminated: neither ":" nor ")" follows it.
Unterminated(p, k) ==
    /\ k \in GroupStarts(p)
    /\ \A n \in k + 3 .. Len(p) : p[n] \notin {":", ")"}

\* C17: for a pattern with an unterminated "(?" at position k, the sanitizer
\* returns; it copies the "(" and the "?" and, going on with the next
\* characters, everything after them; and it returns the flags of the part of
\* the pattern before k, nothing being added for the "(?".
C17_UnterminatedCopiedVerbatim ==
    san_pc = "return" =>
        \A k \in 0 .. Len(pat) :
            Unterminated(pat, k) =>
                LET before == sanitize_inline_flags(SubSeq(pat, 1, k))
                IN  /\ k \in sanitized.kept /\ k + 1 \in sanitized.kept
                    /\ sanitized.text = before.text \o SubSeq(pat, k + 1, Len(pat))
                    /\ sanitized.extra = before.extra

\* An unterminated "(?" followed by a flag character, after a flag group that
\* was removed.
C17_Witness ==
    /\ san_pc = "return"
    /\ sanitized.extra # {}
    /\ \E k \in 1 .. Len(pat) :
          /\ Unterminated(pat, k)
          /\ k + 2 < Len(pat)
          /\ pat[k + 3] \in {"i", "m"}

\* C18: every pure negation group (?-off), wherever it stands, is removed
\* from the output, and no flag is returned for it: every flag returned is
\* the flag of an "on" character of an unscoped group (?on) or (?on-off).
C18_NegationGroupRemovedNoFlag ==
    san_pc = "return" =>
        /\ \A g \in NegationGroups(pat) :
              \A n \in g.k .. g.e - 1 : n \notin sanitized.kept
        /\ \A f \in sanitized.extra :
              \E g \in UnscopedGroups(pat) :
                  \E n \in DOMAIN g.on : INLINE_FLAG_MAP[g.on[n]] = f
        /\ (NegationGroups(pat) # {} /\ UnscopedGroups(pat) = {}) =>
              sanitized.extra = {}

\* A negation group that does not open the pattern has been removed; the rest
\* was kept and no flag returned.
C18_Witness ==
    /\ san_pc = "return"
    /\ \E g \in NegationGroups(pat) : g.k > 0 /\ g.e > g.k + 4
    /\ sanitized.kept # {}
    /\ sanitized.extra = {}

\* C19: the text the sanitizer returns holds no unscoped flag group (?on),
\* (?on-off) or (?-off), and sanitizing it again returns the same text and
\* no extra flags.
C19_OutputHasNoFlagGroup ==
    san_pc = "return" =>
        /\ UnscopedGroups(sanitized.text) = {}
        /\ NegationGroups(sanitized.text) = {}
        /\ sanitize_inline_flags(sanitized.text).text = sanitized.text
        /\ sanitize_inline_flags(sanitized.text).extra = {}

(***************************************************************************)
(* scan_many: the order of the result.                                     *)
(***************************************************************************)
\* The content of target t, when its retrieval succeeds.
BodyOf(t) ==
    IF t.kind = "url" THEN UrlWorld[t.value].body ELSE FileWorld[t.value].body

\* The block of target t: for each pattern in the order of the pattern set,
\* for each of its matches in the order found, the Finding of that match;
\* nothing when the retrieval fails.
Block(t) ==
    IF RetrievalFails(t) THEN <<>>
    ELSE Flatten([k \in DOMAIN compiled_patterns |->
            LET p  == compiled_patterns[k]
                ms == finditer(p.cre, BodyOf(t))
            IN  [n \in DOMAIN ms |->
                    Finding(p.name, p.raw, BodyOf(t), ms[n], context, t.value)]])

\* The matches ms stand by increasing start (and, from the same start, by
\* increasing end).
ByStart(ms) ==
    \A a, b \in DOMAIN ms :
        a < b => \/ ms[a].start < ms[b].start
                 \/ ms[a].start = ms[b].start /\ ms[a].end < ms[b].end

\* The orders in which n futures can be collected.
Orders(n) == {pi \in [1..n -> 1..n] : \A a, b \in 1..n : pi[a] = pi[b] => a = b}

\* C20: the list scan_many returns is, for some order of the target
\* occurrences, the concatenation of their blocks: the Findings of one
\* occurrence are contiguous, ordered by the position of the pattern in the
\* pattern set and, within a pattern, by increasing match start.
C20_ContiguousOrderedBlocks ==
    sc_pc = "returned" =>
        /\ \E pi \in Orders(Len(targets)) :
              results = Flatten([k \in DOMAIN targets |-> Block(targets[pi[k]])])
        /\ \A t \in Range(targets) : \A k \in DOMAIN compiled_patterns :
              ByStart(finditer(compiled_patterns[k].cre, BodyOf(t)))

\* scan_many returned the blocks of a URL and of a file, each with the matches
\* of its patterns.
C20_Witness ==
    /\ sc_pc = "returned"
    /\ \E a, b \in DOMAIN targets :
          /\ targets[a].kind = "url" /\ targets[b].kind = "file"
          /\ Len(Block(targets[a])) >= 2 /\ Len(Block(targets[b])) >= 2
    /\ Len(results) >= 4
    /\ results[1].source # results[Len(results)].source

====
